---- MODULE Spec2Model ----
(***************************************************************************)
(* Carbon Tracker: a Streamlit presentation layer (app.py) over a thin     *)
(* MySQL data access layer (backend.py).                                   *)
(*                                                                         *)
(* State: the tables the program reads and writes (Users, ActivityLogs    *)
(* and their AUTO_INCREMENT counters), the st.cache_data read cache with  *)
(* its clock, and the Logs tab's in-memory sort and pagination.            *)
(***************************************************************************)
EXTENDS Integers, Sequences, FiniteSets, TLC

VARIABLES
    Users,          \* table Users: set of [UserID, Email, CarbonGoal]
    ActivityLogs,   \* table ActivityLogs: set of stored rows
    nextUserID,     \* AUTO_INCREMENT counter of Users
    nextLogID,      \* AUTO_INCREMENT counter of ActivityLogs
    cache,          \* st.cache_data: (wrapper, args) -> [value, at]
    now,            \* the clock the cache reads
    last,           \* what the last operation was given and what it returned
    fetched,        \* observer: per key, the last Data Access Layer call made for it
                    \*   by a cached read since the last invalidation
    pool,           \* the connection pool's queue of free connections
    threads         \* per session thread: where it is in a Data Access Layer
                    \*   operation and the connection it holds

vars == <<Users, ActivityLogs, nextUserID, nextLogID, cache, now, last, fetched,
          pool, threads>>

(***************************************************************************)
(* Bounds of the model.                                                    *)
(***************************************************************************)
MaxUserID == 2      \* user ids handed out in a run
MaxLogID == 2       \* log ids handed out to single inserts in a run
MaxDate == 2        \* dates are day numbers 1..MaxDate
MaxTime == 45       \* the clock stops here
TickStep == 15      \* the clock advances in steps of this size

MaxCached == 2      \* cache entries held at once in an explored run
MaxImportRows == 3  \* rows of an imported file
MaxSortRows == 3    \* rows of a sorted log set
MaxViewRows == 21   \* rows of a paginated log set
MaxPageSize == 3    \* page sizes 1..MaxPageSize, besides the slider's
MaxPage == 4        \* requested page numbers
MaxSessions == 6    \* session threads that call the Data Access Layer

\* @st.cache_data(ttl=30)
TTL == 30

\* MySQLConnectionPool(pool_size=5)
pool_size == 5

\* Python None, SQL NULL.
None == -1

\* The pool as constructed: its queue holds pool_size connections.
MySQLConnectionPool == [i \in 1..pool_size |-> i]

\* Session threads; one that is in no operation holds no connection.
Sessions == 1..MaxSessions
Idle == [pc |-> "idle", cn |-> None]

Dates == 1..MaxDate
Quantities == {0, 3}

(***************************************************************************)
(* Master data seeded outside the program: two activities, the second     *)
(* without a row in EmissionFactors; one location.                         *)
(***************************************************************************)
Activities == {1, 2}
Locations == {1}

EmissionValue(a) == IF a = 1 THEN 2 ELSE None

\* Two day numbers per month: 1, 2 are in month 1; 3, 4 in month 2.
MonthOf(d) == (d + 1) \div 2

UserIDs(users) == {u.UserID : u \in users}

(***************************************************************************)
(* backend.py: Database                                                    *)
(***************************************************************************)

\* SELECT ... FROM Users ORDER BY UserID
RECURSIVE OrderByUserID(_)
OrderByUserID(S) ==
    IF S = {} THEN <<>>
    ELSE LET first == CHOOSE u \in S : \A v \in S : u.UserID <= v.UserID
         IN  <<first>> \o OrderByUserID(S \ {first})

list_users(users) == OrderByUserID(users)

\* INSERT INTO Users: the UNIQUE constraint on Email rejects a duplicate.
add_user_raises(users, email) == \E u \in users : u.Email = email

add_user_row(id, email, carbon_goal) ==
    [UserID |-> id, Email |-> email, CarbonGoal |-> carbon_goal]

\* Activities A LEFT JOIN EmissionFactors EF ... ORDER BY A.ActivityID
list_activities ==
    [i \in 1..Cardinality(Activities) |-> [ActivityID |-> i, EmissionValue |-> EmissionValue(i)]]

\* ... FROM Locations ORDER BY City
list_locations ==
    [i \in 1..Cardinality(Locations) |-> [LocationID |-> i]]

\* "if user_id:", "if date_from:", "if date_to:": None and 0 are both falsy.
Truthy(x) == x # None /\ x # 0

\* The WHERE clause list_logs builds, and the two inner joins.
LogSelected_LateBound(users, r, user_id, date_from, date_to) ==
    /\ r.UserID \in UserIDs(users)
    /\ r.ActivityID \in Activities
    /\ (Truthy(user_id) => r.UserID = user_id)
    /\ (Truthy(date_from) => r.Date >= date_from)
    /\ (Truthy(date_to) => r.Date < date_to)

LogSelected(users, r, user_id, date_from, date_to) ==
    /\ r.UserID \in UserIDs(users)
    /\ r.ActivityID \in Activities
    /\ (Truthy(user_id) => r.UserID = user_id)
    /\ (Truthy(date_from) => r.Date >= date_from)
    /\ (Truthy(date_to) => r.Date <= date_to)

\* ORDER BY AL.Date DESC, AL.LogID DESC
RECURSIVE OrderByDateDescLogIDDesc(_)
OrderByDateDescLogIDDesc(S) ==
    IF S = {} THEN <<>>
    ELSE LET first == CHOOSE r \in S : \A q \in S :
                          \/ q.Date < r.Date
                          \/ (q.Date = r.Date /\ q.LogID <= r.LogID)
         IN  <<first>> \o OrderByDateDescLogIDDesc(S \ {first})

list_logs(users, logs, user_id, date_from, date_to) ==
    OrderByDateDescLogIDDesc(
        {r \in logs : LogSelected(users, r, user_id, date_from, date_to)})

\* The BEFORE INSERT trigger of the schema: the emission is the activity's
\* emission factor times the quantity; SQL arithmetic on NULL gives NULL.
TriggerCalculatedEmission(activity_id, qty) ==
    IF EmissionValue(activity_id) = None THEN None
    ELSE EmissionValue(activity_id) * qty

\* The foreign keys of ActivityLogs reject a row whose references do not exist.
add_log_raises(users, user_id, activity_id, location_id) ==
    \/ user_id \notin UserIDs(users)
    \/ activity_id \notin Activities
    \/ (location_id # None /\ location_id \notin Locations)

\* INSERT INTO ActivityLogs (UserID, ActivityID, LocationID, Date, Quantity)
add_log_row(id, user_id, activity_id, date, qty, location_id) ==
    [LogID |-> id, UserID |-> user_id, ActivityID |-> activity_id,
     LocationID |-> location_id, Date |-> date, Quantity |-> qty,
     CalculatedEmission |-> TriggerCalculatedEmission(activity_id, qty)]

\* DELETE FROM ActivityLogs WHERE LogID=%s
delete_log_matched_UpTo(logs, log_id) == {r \in logs : r.LogID <= log_id}

delete_log_matched(logs, log_id) == {r \in logs : r.LogID = log_id}

delete_log_rowcount(logs, log_id) == Cardinality(delete_log_matched(logs, log_id))

\* SUM(CalculatedEmission): NULLs are skipped.
RECURSIVE SumEmission(_)
SumEmission(S) ==
    IF S = {} THEN 0
    ELSE LET r == CHOOSE x \in S : TRUE
         IN  (IF r.CalculatedEmission = None THEN 0 ELSE r.CalculatedEmission)
             + SumEmission(S \ {r})

\* The rows a routine groups by activity (one category per activity here).
RECURSIVE TotalsByActivity(_, _)
TotalsByActivity(S, a) ==
    IF a > Cardinality(Activities) THEN <<>>
    ELSE LET mine == {r \in S : r.ActivityID = a}
         IN  (IF mine = {} THEN <<>>
              ELSE <<[ActivityName |-> a, CategoryName |-> a,
                      TotalEmission_kgCO2 |-> SumEmission(mine)]>>)
             \o TotalsByActivity(S, a + 1)

\* Stored procedure GetMonthlyEmissionsByCategory(p_user_id, p_year, p_month);
\* a (year, month) pair is one month number.
GetMonthlyEmissionsByCategory(logs, user_id, month) ==
    TotalsByActivity({r \in logs : r.UserID = user_id /\ MonthOf(r.Date) = month}, 1)

\* Stored procedure GetActivityRankingByEmission(user, start, end).
GetActivityRankingByEmission(logs, user_id, start_date, end_date) ==
    TotalsByActivity({r \in logs : /\ r.UserID = user_id
                                   /\ r.Date >= start_date
                                   /\ r.Date <= end_date}, 1)

\* Stored function CheckIfUserMetGoal(user, year, month): NULL when the user
\* has no goal, else whether the month's emission is within the goal.
CheckIfUserMetGoal(users, logs, user_id, month) ==
    LET us == {u \in users : u.UserID = user_id}
        goal == IF us = {} THEN None ELSE (CHOOSE u \in us : TRUE).CarbonGoal
        total == SumEmission({r \in logs : r.UserID = user_id /\ MonthOf(r.Date) = month})
    IN  IF goal = None THEN None
        ELSE IF total <= goal THEN 1 ELSE 0

\* for r in cur.stored_results(): results = r.fetchall()
monthly_emissions_by_category(logs, user_id, month) ==
    GetMonthlyEmissionsByCategory(logs, user_id, month)

activity_ranking(logs, user_id, start_date, end_date) ==
    GetActivityRankingByEmission(logs, user_id, start_date, end_date)

\* Python's bool(): True is 1, False is 0; bool(None) is False.
PyBool(x) == IF x = None \/ x = 0 THEN 0 ELSE 1

\* row = cur.fetchone(); return bool(row[0]) if row else None
\* SELECT f(...) always yields one row, holding the scalar.
user_met_goal(users, logs, user_id, month) ==
    LET row == <<CheckIfUserMetGoal(users, logs, user_id, month)>>
    IN  IF Len(row) > 0 THEN PyBool(row[1]) ELSE None

(***************************************************************************)
(* app.py: the cached read wrappers, @st.cache_data(ttl=30).               *)
(***************************************************************************)

\* What a wrapper calls on a miss, over the given tables.
CallOn(users, logs, op, args) ==
    CASE op = "load_users" -> list_users(users)
      [] op = "load_activities" -> list_activities
      [] op = "load_locations" -> list_locations
      [] op = "load_logs" -> list_logs(users, logs, args[1], args[2], args[3])
      [] op = "proc_monthly_emissions" -> monthly_emissions_by_category(logs, args[1], args[2])
      [] op = "proc_ranking" -> activity_ranking(logs, args[1], args[2], args[3])
      [] op = "func_goal" -> user_met_goal(users, logs, args[1], args[2])

Call(op, args) == CallOn(Users, ActivityLogs, op, args)

\* The cache key: the wrapper and its exact argument tuple.
CacheKey_WrapperOnly(op, args) == <<op, <<>>>>

CacheKey(op, args) == <<op, args>>

\* An entry is served while it is younger than the TTL.
Fresh_NoExpiry(k) == k \in DOMAIN cache

Fresh(k) == k \in DOMAIN cache /\ now - cache[k].at < TTL

Put(c, k, e) == [x \in DOMAIN c \cup {k} |-> IF x = k THEN e ELSE c[x]]

\* st.cache_data.clear()
st_cache_data_clear_KeepsMasterData ==
    LET keep == {k \in DOMAIN cache : k[1] # "load_logs"}
    IN  IF keep = {} THEN <<>> ELSE [k \in keep |-> cache[k]]

st_cache_data_clear == <<>>

\* The observer's view of a read, taken before it runs: whether a call for this
\* key was issued less than TTL ago with no invalidation since.
InWindow(k) == k \in DOMAIN fetched /\ now - fetched[k].at < TTL

CachedRead(op, args) ==
    LET k == CacheKey(op, args)
        obs == <<op, args>>
        hit == Fresh(k)
        value == IF hit THEN cache[k].value ELSE Call(op, args)
    IN  /\ (hit \/ k \in DOMAIN cache \/ Cardinality(DOMAIN cache) < MaxCached)
        /\ cache' = IF hit THEN cache ELSE Put(cache, k, [value |-> value, at |-> now])
        /\ fetched' = IF hit THEN fetched
                      ELSE Put(fetched, obs, [value |-> value, at |-> now])
        /\ last' = [op |-> "read", wrapper |-> op, args |-> args, issued |-> ~hit,
                    result |-> value,
                    in_window |-> InWindow(obs),
                    previous |-> IF obs \in DOMAIN fetched
                                 THEN <<fetched[obs].value>> ELSE <<>>]
        /\ UNCHANGED <<Users, ActivityLogs, nextUserID, nextLogID, now, pool, threads>>

\* Time passes.
Tick ==
    /\ now + TickStep <= MaxTime
    /\ now' = now + TickStep
    /\ last' = [op |-> "tick"]
    /\ UNCHANGED <<Users, ActivityLogs, nextUserID, nextLogID, cache, fetched, pool, threads>>

(***************************************************************************)
(* app.py: the button handlers.  users, activities and locations in the    *)
(* script are the cached lists; no user is ever deleted, so a picked user  *)
(* is a row of Users.                                                      *)
(***************************************************************************)

\* The handler ends with st.cache_data.clear(); the observers start afresh.
Invalidate ==
    /\ cache' = st_cache_data_clear
    /\ fetched' = <<>>

\* "Refresh Category Chart" / "Refresh Ranking": shown for a specific user.
RefreshClick ==
    /\ Invalidate
    /\ last' = [op |-> "refresh"]
    /\ UNCHANGED <<Users, ActivityLogs, nextUserID, nextLogID, now, pool, threads>>

\* ins_user_id = picked_user_id: the user of an inserted log is the one picked
\* in the filter of the top bar.
ins_user_id_FirstUser(picked_user_id) == 1

ins_user_id(picked_user_id) == picked_user_id

\* "Add Log"
AddLogClick(picked_user_id, activity_id, qty, log_date, location_id) ==
    /\ Users # {}
    /\ nextLogID <= MaxLogID
    /\ IF ins_user_id(picked_user_id) = None
       THEN /\ last' = [op |-> "add_log_click", picked |-> picked_user_id,
                        called |-> FALSE, raised |-> FALSE, new_id |-> None,
                        activity_id |-> activity_id, date |-> log_date]
            /\ UNCHANGED <<ActivityLogs, nextLogID, cache, fetched>>
       ELSE IF add_log_raises(Users, ins_user_id(picked_user_id), activity_id, location_id)
       THEN /\ last' = [op |-> "add_log_click", picked |-> picked_user_id,
                        called |-> TRUE, raised |-> TRUE, new_id |-> None,
                        activity_id |-> activity_id, date |-> log_date]
            /\ UNCHANGED <<ActivityLogs, nextLogID, cache, fetched>>
       ELSE /\ ActivityLogs' = ActivityLogs \cup
                   {add_log_row(nextLogID, ins_user_id(picked_user_id), activity_id,
                                log_date, qty, location_id)}
            /\ nextLogID' = nextLogID + 1
            /\ last' = [op |-> "add_log_click", picked |-> picked_user_id,
                        called |-> TRUE, raised |-> FALSE, new_id |-> nextLogID,
                        activity_id |-> activity_id, date |-> log_date,
                        held |-> Cardinality(DOMAIN cache)]
            /\ Invalidate
    /\ UNCHANGED <<Users, nextUserID, now, pool, threads>>

\* "Delete": the controls are shown when the fetched log set is not empty.
DeleteClick(del_id) ==
    /\ ActivityLogs # {}
    /\ IF del_id <= 0
       THEN /\ last' = [op |-> "delete_click", del_id |-> del_id, called |-> FALSE,
                        deleted |-> 0, before |-> ActivityLogs]
            /\ UNCHANGED <<ActivityLogs, cache, fetched>>
       ELSE LET deleted == delete_log_rowcount(ActivityLogs, del_id)
            IN  /\ ActivityLogs' = ActivityLogs \ delete_log_matched(ActivityLogs, del_id)
                /\ last' = [op |-> "delete_click", del_id |-> del_id, called |-> TRUE,
                            deleted |-> deleted, before |-> ActivityLogs,
                            held |-> Cardinality(DOMAIN cache)]
                /\ IF deleted # 0
                   THEN Invalidate
                   ELSE UNCHANGED <<cache, fetched>>
    /\ UNCHANGED <<Users, nextUserID, nextLogID, now, pool, threads>>

\* A cell of the uploaded CSV: a number, or text that is no number.
Num(v) == [numeric |-> TRUE, value |-> v]
Text == [numeric |-> FALSE, value |-> 0]

\* int(r["ActivityID"]), float(r["Quantity"]) raise ValueError on text; the
\* insert raises when a reference does not exist.
ImportRowRaises(users, picked_user_id, r) ==
    \/ ~r.ActivityID.numeric
    \/ ~r.Quantity.numeric
    \/ add_log_raises(users, picked_user_id, r.ActivityID.value, r.LocationID)

\* "except Exception as ie: st.warning(...)": the loop goes on with the next row.
AfterFailedRow_Abort(rows, i) == Len(rows) + 1

AfterFailedRow(rows, i) == i + 1

\* for _, r in df_imp.iterrows(): try: db.add_log(...); inserted += 1 ...
RECURSIVE ImportLoop(_, _, _, _)
ImportLoop(users, picked_user_id, rows, st) ==
    IF st.i > Len(rows) THEN st
    ELSE LET r == rows[st.i]
         IN  IF ImportRowRaises(users, picked_user_id, r)
             THEN ImportLoop(users, picked_user_id, rows,
                      [st EXCEPT !.i = AfterFailedRow(rows, st.i),
                                 !.attempted = Append(@, st.i),
                                 !.warnings = Append(@, st.i)])
             ELSE ImportLoop(users, picked_user_id, rows,
                      [st EXCEPT !.i = st.i + 1,
                                 !.attempted = Append(@, st.i),
                                 !.logs = @ \cup {add_log_row(st.next, picked_user_id,
                                                     r.ActivityID.value, r.Date,
                                                     r.Quantity.value, r.LocationID)},
                                 !.next = @ + 1,
                                 !.inserted = @ + 1])

\* "Import Rows": shown for a file with the required columns and a specific user.
ImportClick(picked_user_id, rows) ==
    /\ nextLogID <= MaxLogID
    /\ IF picked_user_id = None
       THEN /\ last' = [op |-> "import_click", picked |-> picked_user_id,
                        called |-> FALSE, rows |-> rows, inserted |-> 0,
                        warnings |-> <<>>, attempted |-> <<>>,
                        before |-> ActivityLogs, first_id |-> nextLogID]
            /\ UNCHANGED <<ActivityLogs, nextLogID, cache, fetched>>
       ELSE LET done == ImportLoop(Users, picked_user_id, rows,
                            [i |-> 1, logs |-> ActivityLogs, next |-> nextLogID,
                             inserted |-> 0, warnings |-> <<>>, attempted |-> <<>>])
            IN  /\ ActivityLogs' = done.logs
                /\ nextLogID' = done.next
                /\ last' = [op |-> "import_click", picked |-> picked_user_id,
                            called |-> TRUE, rows |-> rows, inserted |-> done.inserted,
                            warnings |-> done.warnings, attempted |-> done.attempted,
                            before |-> ActivityLogs, first_id |-> nextLogID,
                            held |-> Cardinality(DOMAIN cache)]
                /\ Invalidate
    /\ UNCHANGED <<Users, nextUserID, now, pool, threads>>

\* "Add User": filled says that name, email and password were all entered.
AddUserClick(filled, email, goal) ==
    /\ nextUserID <= MaxUserID
    /\ IF ~filled
       THEN /\ last' = [op |-> "add_user_click", called |-> FALSE, raised |-> FALSE]
            /\ UNCHANGED <<Users, nextUserID, cache, fetched>>
       ELSE IF add_user_raises(Users, email)
       THEN /\ last' = [op |-> "add_user_click", called |-> TRUE, raised |-> TRUE]
            /\ UNCHANGED <<Users, nextUserID, cache, fetched>>
       ELSE /\ Users' = Users \cup {add_user_row(nextUserID, email, goal)}
            /\ nextUserID' = nextUserID + 1
            /\ last' = [op |-> "add_user_click", called |-> TRUE, raised |-> FALSE,
                        held |-> Cardinality(DOMAIN cache)]
            /\ Invalidate
    /\ UNCHANGED <<ActivityLogs, nextLogID, now, pool, threads>>

\* Dashboard, Goal Check: the message shown for func_goal's answer.
\* met is True: success; met is False: warning; otherwise: info.
GoalMessage(met) ==
    IF met = 1 THEN "Goal Met"
    ELSE IF met = 0 THEN "Goal Not Met"
    ELSE "No result from function."

\* if picked_user_id: met = func_goal(picked_user_id, today.year, today.month)
\* func_goal is a cached wrapper of user_met_goal.
GoalCheck(picked_user_id, month) ==
    /\ Truthy(picked_user_id)
    /\ LET args == <<picked_user_id, month>>
           k == CacheKey("func_goal", args)
           hit == Fresh(k)
           met == IF hit THEN cache[k].value ELSE Call("func_goal", args)
       IN  /\ (hit \/ k \in DOMAIN cache \/ Cardinality(DOMAIN cache) < MaxCached)
           /\ cache' = IF hit THEN cache ELSE Put(cache, k, [value |-> met, at |-> now])
           /\ fetched' = IF hit THEN fetched
                         ELSE Put(fetched, <<"func_goal", args>>, [value |-> met, at |-> now])
           /\ last' = [op |-> "goal_check", user_id |-> picked_user_id, month |-> month,
                       scalar |-> CheckIfUserMetGoal(Users, ActivityLogs,
                                                     picked_user_id, month),
                       met |-> met, message |-> GoalMessage(met)]
    /\ UNCHANGED <<Users, ActivityLogs, nextUserID, nextLogID, now, pool, threads>>

(***************************************************************************)
(* app.py: the Logs tab, in-memory sort and pagination.                    *)
(***************************************************************************)
Min(a, b) == IF a <= b THEN a ELSE b
Max(a, b) == IF a >= b THEN a ELSE b

Reverse(s) == [i \in 1..Len(s) |-> s[Len(s) + 1 - i]]

\* df.iloc[start:end]: a Python slice, clipped to the rows there are.
iloc_EndInclusive(df, start, end) ==
    IF start >= Len(df) THEN <<>> ELSE SubSeq(df, start + 1, Min(end + 1, Len(df)))

iloc(df, start, end) ==
    IF start >= Len(df) THEN <<>> ELSE SubSeq(df, start + 1, Min(end, Len(df)))

paginate_df_ZeroBasedPage(df, page, page_size) ==
    IF df = <<>> THEN [view |-> df, total_pages |-> 0]
    ELSE LET total_pages == (Len(df) + page_size - 1) \div page_size
             pg == Max(1, Min(page, total_pages))
             start == pg * page_size
             end == start + page_size
         IN  [view |-> iloc(df, start, end), total_pages |-> total_pages]

\* _paginate_df
paginate_df(df, page, page_size) ==
    IF df = <<>> THEN [view |-> df, total_pages |-> 0]
    ELSE LET total_pages == (Len(df) + page_size - 1) \div page_size
             pg == Max(1, Min(page, total_pages))
             start == (pg - 1) * page_size
             end == start + page_size
         IN  [view |-> iloc(df, start, end), total_pages |-> total_pages]

\* A stable merge sort of positions by their keys (kind="mergesort").
RECURSIVE Merge(_, _, _)
Merge(keys, a, b) ==
    IF a = <<>> THEN b
    ELSE IF b = <<>> THEN a
    ELSE IF keys[a[1]] <= keys[b[1]]
         THEN <<a[1]>> \o Merge(keys, Tail(a), b)
         ELSE <<b[1]>> \o Merge(keys, a, Tail(b))

RECURSIVE argsort_mergesort(_, _)
argsort_mergesort(keys, idx) ==
    IF Len(idx) <= 1 THEN idx
    ELSE LET h == Len(idx) \div 2
         IN  Merge(keys, argsort_mergesort(keys, SubSeq(idx, 1, h)),
                         argsort_mergesort(keys, SubSeq(idx, h + 1, Len(idx))))

Positions(keys) == [i \in 1..Len(keys) |-> i]

nargsort_ReverseAscending(keys, ascending) ==
    LET idx == Positions(keys)
        non_nan_idx == SelectSeq(idx, LAMBDA i : keys[i] # None)
        nan_idx == SelectSeq(idx, LAMBDA i : keys[i] = None)
        sorted == argsort_mergesort(keys, non_nan_idx)
    IN  (IF ascending THEN sorted ELSE Reverse(sorted)) \o nan_idx

\* pandas' nargsort behind sort_values: nulls are set aside and put last; for a
\* descending sort the input is reversed, sorted ascending and reversed again.
nargsort(keys, ascending) ==
    LET idx == Positions(keys)
        non_nan_idx == SelectSeq(idx, LAMBDA i : keys[i] # None)
        nan_idx == SelectSeq(idx, LAMBDA i : keys[i] = None)
        input == IF ascending THEN non_nan_idx ELSE Reverse(non_nan_idx)
        sorted == argsort_mergesort(keys, input)
    IN  (IF ascending THEN sorted ELSE Reverse(sorted)) \o nan_idx

\* df_logs.sort_values(sort_col, ascending=ascending, kind="mergesort")
sort_values(df, sort_col, ascending) ==
    LET indexer == nargsort([i \in 1..Len(df) |-> df[i][sort_col]], ascending)
    IN  [i \in 1..Len(df) |-> df[indexer[i]]]

\* The slider's choices of "Rows / page".
PageSizes == {10, 20, 30, 50, 100}

\* The inputs of a computation are in last; the computation replaces them by
\* its result.
TablesUnchanged ==
    UNCHANGED <<Users, ActivityLogs, nextUserID, nextLogID, cache, now, pool, threads, fetched>>

\* _paginate_df(df, page, page_size)
PaginateCall ==
    /\ last.op = "paginate_input"
    /\ LET out == paginate_df(last.df, last.page, last.page_size)
       IN  last' = [op |-> "paginate", df |-> last.df, page |-> last.page,
                    page_size |-> last.page_size, view |-> out.view,
                    total_pages |-> out.total_pages]
    /\ TablesUnchanged

\* sort_values alone
SortCall ==
    /\ last.op = "sort_input"
    /\ last' = [op |-> "sort", df |-> last.df, sort_col |-> last.sort_col,
                ascending |-> last.ascending,
                sdf |-> sort_values(last.df, last.sort_col, last.ascending)]
    /\ TablesUnchanged

\* The Logs tab with a non-empty df_logs: sort, paginate, and on a page past
\* the last one warn and show page 1.
LogsTab ==
    /\ last.op = "logs_tab_input"
    /\ last.df # <<>>
    /\ LET sdf == sort_values(last.df, last.sort_col, last.ascending)
           first == paginate_df(sdf, last.page, last.page_size)
           reset == first.total_pages # 0 /\ last.page > first.total_pages
           shown == IF reset THEN paginate_df(sdf, 1, last.page_size) ELSE first
       IN  last' = [op |-> "logs_tab", df |-> last.df, sdf |-> sdf, page |-> last.page,
                    page_size |-> last.page_size, view |-> shown.view,
                    total_pages |-> shown.total_pages, warned |-> reset]
    /\ TablesUnchanged

(***************************************************************************)
(* Direct calls of the Data Access Layer.                                  *)
(***************************************************************************)
CacheUnchanged == UNCHANGED <<cache, now, pool, threads, fetched>>

DalListLogs(user_id, date_from, date_to) ==
    /\ last' = [op |-> "list_logs", user_id |-> user_id, date_from |-> date_from,
                date_to |-> date_to,
                result |-> list_logs(Users, ActivityLogs, user_id, date_from, date_to)]
    /\ UNCHANGED <<Users, ActivityLogs, nextUserID, nextLogID>>
    /\ CacheUnchanged

DalAddLog(user_id, activity_id, date, qty, location_id) ==
    /\ nextLogID <= MaxLogID
    /\ IF add_log_raises(Users, user_id, activity_id, location_id)
       THEN /\ last' = [op |-> "add_log", raised |-> TRUE, result |-> None,
                        user_id |-> user_id, activity_id |-> activity_id, date |-> date]
            /\ UNCHANGED <<ActivityLogs, nextLogID>>
       ELSE /\ ActivityLogs' = ActivityLogs \cup
                   {add_log_row(nextLogID, user_id, activity_id, date, qty, location_id)}
            /\ nextLogID' = nextLogID + 1
            /\ last' = [op |-> "add_log", raised |-> FALSE, result |-> nextLogID,
                        user_id |-> user_id, activity_id |-> activity_id, date |-> date]
    /\ UNCHANGED <<Users, nextUserID>>
    /\ CacheUnchanged

DalDeleteLog(log_id) ==
    /\ ActivityLogs' = ActivityLogs \ delete_log_matched(ActivityLogs, log_id)
    /\ last' = [op |-> "delete_log", log_id |-> log_id, before |-> ActivityLogs,
                result |-> delete_log_rowcount(ActivityLogs, log_id)]
    /\ UNCHANGED <<Users, nextUserID, nextLogID>>
    /\ CacheUnchanged

(***************************************************************************)
(* backend.py: the connection an operation holds.  Every operation is      *)
(*   with self._conn() as cn, cn.cursor() as cur: <statement>              *)
(* taken here in two steps, so that operations of several sessions overlap. *)
(***************************************************************************)
Leased == {t \in Sessions : threads[t].cn # None}

\* Leaving the with block: the connection goes back to the queue, on return
\* and on raise alike.
exit_OnReturnOnly(queue, cn, raised) == IF raised THEN queue ELSE Append(queue, cn)

exit(queue, cn, raised) == Append(queue, cn)

\* self._conn(): pool.get_connection() takes the connection at the head of the
\* queue, and raises PoolError when the queue is empty.
DalEnter(t) ==
    /\ threads[t].pc = "idle"
    /\ IF pool = <<>>
       THEN /\ last' = [op |-> "dal_enter", raised |-> TRUE,
                        leased |-> Cardinality(Leased)]
            /\ UNCHANGED <<pool, threads>>
       ELSE /\ pool' = Tail(pool)
            /\ threads' = [threads EXCEPT ![t] = [pc |-> "running", cn |-> Head(pool)]]
            /\ last' = [op |-> "dal_enter", raised |-> FALSE,
                        leased |-> Cardinality(Leased)]
    /\ UNCHANGED <<Users, ActivityLogs, nextUserID, nextLogID, cache, now, fetched>>

\* The operations a session ends here: add_log for an activity that does not
\* exist, which raises, and delete_log of an id that matches no row, which
\* returns 0. Neither changes a table.
DalBody(name) ==
    IF name = "add_log"
    THEN [raised |-> add_log_raises(Users, 1, Cardinality(Activities) + 1, None),
          result |-> None]
    ELSE [raised |-> FALSE, result |-> delete_log_rowcount(ActivityLogs, 0)]

\* The statement runs and the with block is left.
DalLeave(t, name) ==
    /\ threads[t].pc = "running"
    /\ LET body == DalBody(name)
       IN  /\ body.raised \/ body.result = 0
           /\ pool' = exit(pool, threads[t].cn, body.raised)
           /\ threads' = [threads EXCEPT ![t] = Idle]
           /\ last' = [op |-> "dal_leave", name |-> name, raised |-> body.raised,
                       result |-> body.result, leased |-> Cardinality(Leased)]
    /\ UNCHANGED <<Users, ActivityLogs, nextUserID, nextLogID, cache, now, fetched>>

(***************************************************************************)
(* Initial state: the seeded tables, an empty cache.                       *)
(***************************************************************************)
SeedUsers == {add_user_row(1, "a", None)}

Init ==
    /\ Users = SeedUsers
    /\ nextUserID = 2
    /\ ActivityLogs = {}
    /\ nextLogID = 1
    /\ cache = <<>>
    /\ now = 0
    /\ pool = MySQLConnectionPool
    /\ threads = [t \in Sessions |-> Idle]
    /\ last = [op |-> "start"]
    /\ fetched = <<>>

OptDates == {None} \cup Dates
OptUsers == {None} \cup (1..MaxUserID)

\* The Data Access Layer called directly, over a table of two users.
InitDal ==
    /\ Users = SeedUsers \cup {add_user_row(2, "b", 4)}
    /\ nextUserID = 3
    /\ ActivityLogs = {}
    /\ nextLogID = 1
    /\ cache = <<>>
    /\ now = 0
    /\ pool = MySQLConnectionPool
    /\ threads = [t \in Sessions |-> Idle]
    /\ last = [op |-> "start"]
    /\ fetched = <<>>

NextDal ==
    \/ \E u \in OptUsers, f \in OptDates, t \in OptDates : DalListLogs(u, f, t)
    \/ \E u \in 1..(MaxUserID + 1), a \in {1, Cardinality(Activities) + 1}, d \in Dates :
          DalAddLog(u, a, d, 3, None)
    \/ \E id \in 0..(MaxLogID + 1) : DalDeleteLog(id)

SpecDal == InitDal /\ [][NextDal]_vars

(***************************************************************************)
(* The application: reads through the cache, the handlers, the clock.      *)
(***************************************************************************)
OptPicked == {None} \cup UserIDs(Users)

\* The argument tuples the reads are explored with.
AppKeys ==
    {<<"load_users", <<>>>>,
     <<"load_logs", <<None, 1, MaxDate>>>>,
     <<"load_logs", <<1, 1, MaxDate>>>>}

AllKeys ==
    AppKeys \cup
    {<<"load_activities", <<>>>>,
     <<"load_locations", <<>>>>,
     <<"load_logs", <<1, MaxDate, MaxDate>>>>,
     <<"proc_monthly_emissions", <<1, 1>>>>,
     <<"proc_ranking", <<1, 1, MaxDate>>>>,
     <<"func_goal", <<1, 1>>>>}

\* Files of up to n rows: an existing or a missing activity, a numeric or a
\* non-numeric quantity.
ImportRows ==
    {[ActivityID |-> a, Date |-> 1, Quantity |-> q, LocationID |-> None] :
        a \in {Num(1), Num(Cardinality(Activities) + 1)}, q \in {Num(3), Text}}

ImportFiles(n) == UNION {[1..m -> ImportRows] : m \in 0..n}

Next ==
    \/ Tick
    \/ \E k \in AppKeys : CachedRead(k[1], k[2])
    \/ RefreshClick
    \/ \E p \in OptPicked, a \in Activities : AddLogClick(p, a, 3, 1, None)
    \/ \E id \in 0..(MaxLogID + 1) : DeleteClick(id)
    \/ \E p \in OptPicked, rows \in ImportFiles(1) : ImportClick(p, rows)
    \/ \E filled \in BOOLEAN, email \in {"a", "b"} : AddUserClick(filled, email, 4)

Spec == Init /\ [][Next]_vars

\* The seven wrappers, one write, the clock.
NextCache ==
    \/ Tick
    \/ \E k \in AllKeys : CachedRead(k[1], k[2])
    \/ RefreshClick
    \/ AddLogClick(1, 1, 3, 1, None)

SpecCache == Init /\ [][NextCache]_vars

\* Bulk import of one file of up to MaxImportRows rows, into an empty table or
\* one that holds a log.
InitImport ==
    /\ Users = SeedUsers
    /\ nextUserID = 2
    /\ \/ ActivityLogs = {} /\ nextLogID = 1
       \/ ActivityLogs = {add_log_row(1, 1, 1, 1, 3, None)} /\ nextLogID = 2
    /\ cache = <<>>
    /\ now = 0
    /\ pool = MySQLConnectionPool
    /\ threads = [t \in Sessions |-> Idle]
    /\ last = [op |-> "start"]
    /\ fetched = <<>>

NextImport ==
    /\ last.op = "start"
    /\ \E p \in OptPicked, rows \in ImportFiles(MaxImportRows) : ImportClick(p, rows)

SpecImport == InitImport /\ [][NextImport]_vars

(***************************************************************************)
(* The Logs tab's computations over fetched log sets.                      *)
(***************************************************************************)
TwoUsers == SeedUsers \cup {add_user_row(2, "b", 4)}

\* Tables of m rows of one user, ids 1..m: any activity and date for each.
SortTables ==
    UNION {{ {add_log_row(i, f[i][1], f[i][2], f[i][3], 3, None) : i \in 1..m} :
              f \in [1..m -> {1} \X Activities \X Dates]} : m \in 0..MaxSortRows}

\* A table of n rows: four rows a day, two users in turn.
ViewTable(n) == {add_log_row(i, 1 + (i % 2), 1, 1 + (i \div 4), 3, None) : i \in 1..n}

\* What list_logs returns for the whole table.
Fetched(table) == list_logs(TwoUsers, table, None, None, None)

SortColumns ==
    {"LogID", "UserID", "ActivityID", "LocationID", "Date", "Quantity", "CalculatedEmission"}

ViewInputs ==
    {[op |-> "sort_input", df |-> Fetched(t), sort_col |-> c, ascending |-> a] :
        t \in SortTables, c \in SortColumns, a \in BOOLEAN}
    \cup
    {[op |-> "paginate_input", df |-> Fetched(ViewTable(n)), page |-> p, page_size |-> ps] :
        n \in 0..MaxViewRows, p \in 0..MaxPage, ps \in (1..MaxPageSize) \cup PageSizes}
    \cup
    {[op |-> "logs_tab_input", df |-> Fetched(ViewTable(n)), page |-> p, page_size |-> ps,
      sort_col |-> c, ascending |-> a] :
        n \in 1..MaxViewRows, p \in 1..MaxPage, ps \in PageSizes,
        c \in {"Date", "UserID"}, a \in BOOLEAN}

InitView ==
    /\ Users = TwoUsers
    /\ nextUserID = 3
    /\ ActivityLogs = {}
    /\ nextLogID = 1
    /\ cache = <<>>
    /\ now = 0
    /\ pool = MySQLConnectionPool
    /\ threads = [t \in Sessions |-> Idle]
    /\ last \in ViewInputs
    /\ fetched = <<>>

NextView == PaginateCall \/ SortCall \/ LogsTab

SpecView == InitView /\ [][NextView]_vars

\* Sessions whose Data Access Layer operations overlap.
NextPool ==
    \/ \E t \in Sessions : DalEnter(t)
    \/ \E t \in Sessions, name \in {"add_log", "delete_log"} : DalLeave(t, name)

SpecPool == Init /\ [][NextPool]_vars

\* The Goal Check of the Dashboard for a user without and a user with a goal,
\* between logs added through the Add Log form.
NextGoal ==
    \/ \E p \in OptPicked, m \in 1..MonthOf(MaxDate) : GoalCheck(p, m)
    \/ \E p \in OptPicked, d \in Dates : AddLogClick(p, 1, 3, d, None)
    \/ RefreshClick

SpecGoal == InitDal /\ [][NextGoal]_vars

(***************************************************************************)
(* Properties.                                                             *)
(***************************************************************************)
Wrote ==
    \/ last.op = "add_user_click" /\ last.called /\ ~last.raised
    \/ last.op = "add_log_click" /\ last.called /\ ~last.raised
    \/ last.op = "delete_click" /\ last.called /\ last.deleted # 0
    \/ last.op = "import_click" /\ last.called

\* C1: a read of a wrapper with arguments for which a call was issued less than
\* TTL ago, with no invalidation since, issues no call and returns what that
\* call fetched; any other read (never fetched, invalidated, or TTL expired)
\* issues a call, returns its result and stores it as the entry, stamped now.
C1_CachedReadWithinTTL ==
    last.op = "read" =>
        /\ last.in_window =>
               /\ ~last.issued
               /\ last.previous = <<last.result>>
        /\ ~last.in_window =>
               /\ last.issued
               /\ last.result = Call(last.wrapper, last.args)
               /\ <<last.wrapper, last.args>> \in DOMAIN cache
               /\ cache[<<last.wrapper, last.args>>] = [value |-> last.result, at |-> now]

\* A second read inside the window, later than the fetch.
C1_Witness ==
    /\ last.op = "read"
    /\ last.in_window
    /\ ~last.issued
    /\ now > fetched[<<last.wrapper, last.args>>].at

\* C2: after a write by a handler (a user added, a log added, a log deleted, an
\* import run) the cache holds no entry, and a read that follows issues a call.
C2_WritesInvalidateWholeCache ==
    /\ [](Wrote => DOMAIN cache = {})
    /\ [][(Wrote /\ last'.op = "read") => last'.issued]_vars

\* A write by a handler that found the cache full.
C2_Witness ==
    /\ Wrote
    /\ last.held >= 2
    /\ DOMAIN cache = {}

\* C3: what a cached read returns is the database's result for the same
\* arguments at the time of the read: no committed write of the application is
\* missing from it (every such write is followed by its invalidation at once,
\* so the result is never older than the last write or the last invalidation).
C3_CachedReadsReflectWrites ==
    last.op = "read" => last.result = Call(last.wrapper, last.args)

\* A read served from the cache after logs were written.
C3_Witness ==
    /\ last.op = "read"
    /\ ~last.issued
    /\ last.wrapper = "load_logs"
    /\ last.args[1] # None
    /\ last.result # <<>>
    /\ Cardinality(ActivityLogs) > Len(last.result)

\* The rows of a sequence.
Range(s) == {s[i] : i \in DOMAIN s}

\* C4: list_logs returns exactly the stored logs with from <= date <= to (each
\* bound applied when given) and with the user of the filter (when given), each
\* once.
C4_ListLogsFilters ==
    last.op = "list_logs" =>
        /\ Range(last.result) =
               {r \in ActivityLogs :
                   /\ last.user_id # None => r.UserID = last.user_id
                   /\ last.date_from # None => last.date_from <= r.Date
                   /\ last.date_to # None => r.Date <= last.date_to}
        /\ Len(last.result) = Cardinality(Range(last.result))

\* A user and a one-day range given; a log of that user on the day is returned,
\* another of the same user outside the range is not.
C4_Witness ==
    /\ last.op = "list_logs"
    /\ last.user_id # None
    /\ last.date_from # None
    /\ last.date_to # None
    /\ last.result # <<>>
    /\ \E r \in ActivityLogs : r.UserID = last.user_id /\ r.Date < last.date_from
    /\ \E i \in DOMAIN last.result : last.result[i].Date = last.date_to

\* C5: delete_log returns 0 or 1; 0 for an id no stored log has, and the table
\* is as before; 1 for the id of a stored log, and exactly that log is gone.
C5_DeleteLogCount ==
    last.op = "delete_log" =>
        LET hit == {r \in last.before : r.LogID = last.log_id}
        IN  /\ last.result \in {0, 1}
            /\ hit = {} => (last.result = 0 /\ ActivityLogs = last.before)
            /\ hit # {} => /\ last.result = 1
                           /\ Cardinality(hit) = 1
                           /\ ActivityLogs = last.before \ hit

\* One of two stored logs deleted.
C5_Witness ==
    /\ last.op = "delete_log"
    /\ last.result = 1
    /\ Cardinality(last.before) = 2
    /\ Cardinality(ActivityLogs) = 1

\* Whether the filters of a load_logs read admit a user and a date.
Admits(args, user_id, date) ==
    /\ args[1] = None \/ args[1] = user_id
    /\ args[2] <= date
    /\ date <= args[3]

\* C6: after "Add Log" has inserted a row, a load_logs read that follows and
\* whose filters admit the row's user and date returns the row, with a
\* CalculatedEmission that is not null, whatever activity was picked.
C6_AddedLogHasEmission ==
    [][(/\ last.op = "add_log_click"
        /\ last.called
        /\ ~last.raised
        /\ last'.op = "read"
        /\ last'.wrapper = "load_logs"
        /\ Admits(last'.args, last.picked, last.date))
       => \E i \in DOMAIN last'.result :
              /\ last'.result[i].LogID = last.new_id
              /\ last'.result[i].CalculatedEmission # None]_vars

\* Whether a row of an imported file is malformed or its insert rejected.
RowFails(r) ==
    \/ ~r.ActivityID.numeric
    \/ ~r.Quantity.numeric
    \/ r.ActivityID.value \notin Activities

\* C7: an import of N rows attempts rows 1..N in order, each once; the inserted
\* count and the reported failures add up to N; the rows that do not fail, and
\* only those, are inserted, for the picked user, with ids in input order.
C7_BulkImportBestEffort ==
    (last.op = "import_click" /\ last.called) =>
        LET N == Len(last.rows)
            ok == {i \in 1..N : ~RowFails(last.rows[i])}
            new == ActivityLogs \ last.before
        IN  /\ Len(last.attempted) = N
            /\ \A i \in 1..N : last.attempted[i] = i
            /\ last.inserted + Len(last.warnings) = N
            /\ last.inserted = Cardinality(ok)
            /\ Range(last.warnings) = (1..N) \ ok
            /\ last.before \subseteq ActivityLogs
            /\ Cardinality(new) = Cardinality(ok)
            /\ \A i \in ok : \E r \in new :
                   /\ r.LogID = last.first_id + Cardinality({j \in ok : j < i})
                   /\ r.UserID = last.picked
                   /\ r.ActivityID = last.rows[i].ActivityID.value
                   /\ r.Date = last.rows[i].Date
                   /\ r.Quantity = last.rows[i].Quantity.value

\* Three rows, the second with a quantity that is no number: two inserted, one
\* failure reported.
C7_Witness ==
    /\ last.op = "import_click"
    /\ last.called
    /\ Len(last.rows) = 3
    /\ ~last.rows[2].Quantity.numeric
    /\ last.inserted = 2
    /\ last.warnings = <<2>>
    /\ Cardinality(ActivityLogs) = 2

\* ceil(R / P)
CeilDiv(R, P) == CHOOSE k \in 0..R : k * P >= R /\ (k = 0 \/ (k - 1) * P < R)

\* Page p of size P of a sequence: positions (p-1)*P+1 .. min(p*P, R).
PageOf(s, p, P) ==
    [k \in 1..(Min(p * P, Len(s)) - (p - 1) * P) |-> s[(p - 1) * P + k]]

\* C8 as stated: the Logs tab shows the requested page clamped into
\* [1, totalPages], so a page past the last one shows the last page.
C8_LogsTabClampsToLastPage ==
    last.op = "logs_tab" =>
        LET tp == CeilDiv(Len(last.sdf), last.page_size)
        IN  last.view = PageOf(last.sdf, Max(1, Min(last.page, tp)), last.page_size)

\* C8 amended: the Logs tab reports totalPages = ceil(R / P); it shows page n
\* for n in [1, totalPages], and for n > totalPages it warns and shows page 1.
C8_LogsTabResetsToFirstPage ==
    last.op = "logs_tab" =>
        LET tp == CeilDiv(Len(last.sdf), last.page_size)
        IN  /\ last.total_pages = tp
            /\ last.warned = (last.page > tp)
            /\ last.view = PageOf(last.sdf, IF last.page > tp THEN 1 ELSE last.page,
                                  last.page_size)

\* A page past the last of several pages was requested; the first is shown.
C8_Witness ==
    /\ last.op = "logs_tab"
    /\ last.total_pages > 1
    /\ last.page > last.total_pages
    /\ last.view = PageOf(last.sdf, 1, last.page_size)
    /\ last.view # PageOf(last.sdf, last.total_pages, last.page_size)

\* C9: for R >= 1 rows and a page p in [1, totalPages], _paginate_df returns
\* the rows at positions (p-1)*P+1 .. min(p*P, R) in input order and
\* totalPages = ceil(R / P); a page before the last has P rows, the last has
\* R - P*(totalPages-1), between 1 and P; for R = 0 it returns no rows and 0.
C9_PaginateSlices ==
    last.op = "paginate" =>
        LET R == Len(last.df)
            P == last.page_size
            p == last.page
            tp == CeilDiv(R, P)
        IN  /\ R = 0 => (last.view = <<>> /\ last.total_pages = 0)
            /\ (R >= 1 /\ p \in 1..tp) =>
                   /\ last.total_pages = tp
                   /\ Len(last.view) = Min(p * P, R) - (p - 1) * P
                   /\ \A k \in 1..Len(last.view) : last.view[k] = last.df[(p - 1) * P + k]
                   /\ p < tp => Len(last.view) = P
                   /\ p = tp => /\ Len(last.view) = R - P * (tp - 1)
                                /\ Len(last.view) \in 1..P

\* A last page that is not full, after at least one full page.
C9_Witness ==
    /\ last.op = "paginate"
    /\ last.total_pages >= 2
    /\ last.page = last.total_pages
    /\ Len(last.view) \in 1..(last.page_size - 1)

\* The position of a row in a sequence of distinct rows.
PositionIn(s, r) == CHOOSE i \in DOMAIN s : s[i] = r

\* C10: the sorted log set is a permutation of the fetched one; its rows with a
\* key are in ascending (descending) order of the key, rows without a key
\* follow; rows with equal keys keep their order, in either direction.
C10_SortIsStable ==
    last.op = "sort" =>
        LET df == last.df
            sdf == last.sdf
            key(r) == r[last.sort_col]
        IN  /\ Len(sdf) = Len(df)
            /\ Range(sdf) = Range(df)
            /\ \A i, j \in DOMAIN sdf : i < j =>
                   /\ key(sdf[i]) = None => key(sdf[j]) = None
                   /\ (key(sdf[i]) # None /\ key(sdf[j]) # None) =>
                          IF last.ascending THEN key(sdf[i]) <= key(sdf[j])
                                            ELSE key(sdf[i]) >= key(sdf[j])
                   /\ key(sdf[i]) = key(sdf[j]) =>
                          PositionIn(df, sdf[i]) < PositionIn(df, sdf[j])

\* A descending sort that moved rows and kept two rows of equal key in order.
C10_Witness ==
    /\ last.op = "sort"
    /\ ~last.ascending
    /\ last.sdf # last.df
    /\ \E i, j \in DOMAIN last.sdf :
           /\ i < j
           /\ last.sdf[i][last.sort_col] = last.sdf[j][last.sort_col]
           /\ last.sdf[i][last.sort_col] # None

\* C11: an operation holds exactly one connection of the pool from its start to
\* its end and none after it, whether it returned or raised: at most pool_size
\* connections are leased, a session holds a connection exactly while it is in
\* an operation, and every connection is either once in the pool's queue or
\* held by one session.
C11_OneLeasePerOperation ==
    /\ Cardinality(Leased) <= pool_size
    /\ \A t \in Sessions : threads[t].pc = "running" <=> threads[t].cn # None
    /\ \A c \in 1..pool_size :
           Cardinality({i \in 1..Len(pool) : pool[i] = c})
             + Cardinality({t \in Sessions : threads[t].cn = c}) = 1
    /\ (last.op = "dal_enter" /\ last.raised) => last.leased = pool_size
    /\ last.op = "dal_enter" =>
           Cardinality(Leased) = last.leased + (IF last.raised THEN 0 ELSE 1)
    /\ last.op = "dal_leave" => Cardinality(Leased) = last.leased - 1

\* An operation ended by raising while every connection was leased, and its
\* connection is back in the pool.
C11_Witness ==
    /\ last.op = "dal_leave"
    /\ last.raised
    /\ last.leased = pool_size
    /\ Len(pool) = 1

\* C12: the goal check keeps three outcomes apart: a true scalar of
\* CheckIfUserMetGoal is answered true and shown as met, a false scalar is
\* answered false and shown as not met, and an absent scalar is answered None
\* and shown as no result, never as false.
C12_GoalCheckTriState ==
    last.op = "goal_check" =>
        /\ last.met = last.scalar
        /\ last.message = (CASE last.scalar = 1 -> "Goal Met"
                             [] last.scalar = 0 -> "Goal Not Met"
                             [] OTHER -> "No result from function.")

\* C13: logs inserted through the application belong to the user picked in
\* the filter: while the filter is "All", Add Log and Import Rows issue no
\* add_log call and leave the stored logs unchanged; every row that appears in
\* ActivityLogs was inserted by one of the two and carries the picked user.
C13_InsertsTargetPickedUser ==
    [][/\ (ActivityLogs' \ ActivityLogs # {}) =>
              last'.op \in {"add_log_click", "import_click"}
       /\ last'.op \in {"add_log_click", "import_click"} =>
              /\ last'.picked = None => (~last'.called /\ ActivityLogs' = ActivityLogs)
              /\ last'.called => last'.picked \in UserIDs(Users)
              /\ \A r \in ActivityLogs' \ ActivityLogs : r.UserID = last'.picked]_vars

\* Rows were imported for user 2 into a table that holds a log of user 1.
C13_Witness ==
    /\ last.op = "import_click"
    /\ last.called
    /\ last.picked = 2
    /\ last.inserted > 0
    /\ \E r \in last.before : r.UserID = 1
    /\ \E r \in ActivityLogs \ last.before : r.UserID = 2

====
